---- MODULE Spec2Model ----
(***************************************************************************)
(* GitHubProfileAnalyzer (github_analyzer.py): the analyze() pipeline      *)
(* fetch user -> fetch repositories (paginated) -> build report -> export  *)
(* and render, and the aggregation methods analyze_languages(),            *)
(* get_most_starred_repos(n) and generate_report().                        *)
(*                                                                         *)
(* Values.  A Python string slot that may hold None (a JSON null) holds    *)
(* the string None below.  An object slot that may hold None (user_data,   *)
(* repos_data, a returned list, dict, report or bool) holds NoneRef or     *)
(* Ref(v).  A list is a sequence; a dict whose keys vary is a function     *)
(* whose DOMAIN is its key set; an insertion-ordered dict of counts is a   *)
(* sequence of [language, count] items.                                    *)
(***************************************************************************)
EXTENDS Integers, Sequences, FiniteSets, TLC

VARIABLES
    pc,              \* position in analyze(), or "api" for a direct method call
    token,           \* self.token
    headers,         \* self.headers
    user_data,       \* self.user_data
    repos_data,      \* self.repos_data
    repos,           \* fetch_repos: local list repos
    page,            \* fetch_repos: local page
    response,        \* the last HTTP response received
    requests,        \* every HTTP request issued, in order
    received,        \* every response to a repository page request, in order
    fetch_user_ret,  \* what fetch_user_data() returned
    fetch_repos_ret, \* what fetch_repos() returned
    report,          \* analyze: local report
    files,           \* the files written
    analyze_ret,     \* what analyze() returned
    call,            \* the method called directly, with its argument
    result           \* what that method returned

vars == <<pc, token, headers, user_data, repos_data, repos, page, response,
          requests, received, fetch_user_ret, fetch_repos_ret, report, files,
          analyze_ret, call, result>>

----------------------------------------------------------------------------
(* Bounds of the model *)

\* fetch_repos is followed up to the request for this page number
MaxPages == 4
\* longest repository list handed to a directly called method
MaxLen == 6
\* largest n passed to get_most_starred_repos(n)
MaxN == 7

----------------------------------------------------------------------------
(* Python values *)

None == "<None>"
NoneRef == <<>>
Ref(v) == <<v>>
Deref(r) == r[1]

\* f'{v}' of a string or None
Str(v) == IF v = None THEN "None" ELSE v

\* truth value of a str-or-None
TruthyStr(s) == s # None /\ s # ""

\* `not x` for a list-or-None
FalsyListNoneOnly(r) == r = NoneRef
FalsyList(r) == r = NoneRef \/ Deref(r) = <<>>

\* `not x` for a dict-or-None
FalsyDict(r) == r = NoneRef \/ DOMAIN Deref(r) = {}

\* dict.get(key, default)
dict_get(d, key, default) == IF key \in DOMAIN d THEN d[key] ELSE default

Min(a, b) == IF a < b THEN a ELSE b

----------------------------------------------------------------------------
(* The environment: credential, server answers *)

username == "octocat"

\* os.getenv('GITHUB_TOKEN'): unset, or a credential
Tokens == {None, "ghp_s3cret"}

Statuses == {200, 403, 404}

UserCore == [public_repos |-> 3, followers |-> 1, following |-> 0,
             created_at |-> "2020-01-01T00:00:00Z"]

\* a user payload carries name and bio as a string, as null, or not at all
UserPayloads ==
    { UserCore @@ n @@ b :
        n \in { <<>>, "name" :> None, "name" :> "Ann" },
        b \in { <<>>, "bio" :> None, "bio" :> "dev" } }

Repo(n, l, s) == [name |-> n, language |-> l, stargazers_count |-> s,
                  forks_count |-> 0, html_url |-> "https://github.com/octocat/" \o n]

RepoA == Repo("a", "Go", 1)
RepoB == Repo("b", None, 1)
RepoC == Repo("c", "Rust", 2)
RepoD == Repo("d", "", 0)

RepoPool == {RepoA, RepoB, RepoC, RepoD}

\* the bodies a repository page request may be answered with
ServerPages == { <<>>, <<RepoA>>, <<RepoB, RepoA>>, <<RepoC, RepoD>>,
                 <<RepoD, RepoB, RepoC>> }

RECURSIVE SeqsUpTo(_, _)
SeqsUpTo(S, n) ==
    IF n = 0 THEN { <<>> }
    ELSE LET shorter == SeqsUpTo(S, n - 1)
         IN  shorter \cup { Append(s, e) : s \in { t \in shorter : Len(t) = n - 1 }, e \in S }

----------------------------------------------------------------------------
(* __init__ *)

make_headers(tok) == [Authorization |-> "token " \o Str(tok),
                      Accept |-> "application/vnd.github.v3+json"]

UserRequest(h) == [endpoint |-> "/users/" \o username, headers |-> h]
ReposRequest(p, h) == [endpoint |-> "/users/" \o username \o "/repos",
                       per_page |-> 100, page |-> p, headers |-> h]

IsReposRequest(r) == "page" \in DOMAIN r

----------------------------------------------------------------------------
(* sorted(xs, key=..., reverse=True) on a list of [key, item] pairs.  The   *)
(* sort is stable: items with equal keys keep their order in xs.           *)

InsertAt(s, pos, e) == SubSeq(s, 1, pos - 1) \o <<e>> \o SubSeq(s, pos, Len(s))

FirstOf(S) == CHOOSE i \in S : \A j \in S : i <= j

\* e goes before the first pair whose key is not less than its own: ties reversed
InsertReversingTies(srt, e) ==
    LET after == { i \in 1..Len(srt) : srt[i].key <= e.key }
    IN  InsertAt(srt, IF after = {} THEN Len(srt) + 1 ELSE FirstOf(after), e)

\* e goes before the first pair with a smaller key, behind every pair with an equal one
InsertDescending(srt, e) ==
    LET after == { i \in 1..Len(srt) : srt[i].key < e.key }
    IN  InsertAt(srt, IF after = {} THEN Len(srt) + 1 ELSE FirstOf(after), e)

RECURSIVE SortedPairs(_)
SortedPairs(ps) ==
    IF ps = <<>> THEN <<>>
    ELSE InsertDescending(SortedPairs(SubSeq(ps, 1, Len(ps) - 1)), ps[Len(ps)])

Items(ps) == [i \in 1..Len(ps) |-> ps[i].item]

\* sorted(self.repos_data, key=lambda x: x['stargazers_count'], reverse=True)
sorted_by_stars(rs) ==
    Items(SortedPairs([i \in 1..Len(rs) |-> [key |-> rs[i].stargazers_count, item |-> rs[i]]]))

\* sorted(language_stats.items(), key=lambda item: item[1], reverse=True)
sorted_by_count(stats) ==
    Items(SortedPairs([i \in 1..Len(stats) |-> [key |-> stats[i].count, item |-> stats[i]]]))

----------------------------------------------------------------------------
(* analyze_languages *)

\* `if repo['language']`
CountsEveryRepo(repo) == TRUE
CountsLanguage(repo) == TruthyStr(repo.language)

\* language_stats[lang] += 1 on a defaultdict(int)
Increment(stats, lang) ==
    LET at == { i \in 1..Len(stats) : stats[i].language = lang }
    IN  IF at = {} THEN Append(stats, [language |-> lang, count |-> 1])
        ELSE [stats EXCEPT ![FirstOf(at)].count = @ + 1]

RECURSIVE count_languages(_)
count_languages(rs) ==
    IF rs = <<>> THEN <<>>
    ELSE LET before == count_languages(SubSeq(rs, 1, Len(rs) - 1))
             repo == rs[Len(rs)]
         IN  IF CountsLanguage(repo) THEN Increment(before, repo.language) ELSE before

analyze_languages(rd) ==
    IF FalsyList(rd) THEN NoneRef
    ELSE Ref(sorted_by_count(count_languages(Deref(rd))))

----------------------------------------------------------------------------
(* get_most_starred_repos *)

DefaultN == 5

\* xs[:n] for n >= 0
TakeOneMore(xs, n) == SubSeq(xs, 1, Min(n + 1, Len(xs)))
TakeFirst(xs, n) == SubSeq(xs, 1, Min(n, Len(xs)))

get_most_starred_repos(rd, n) ==
    IF FalsyList(rd) THEN NoneRef
    ELSE Ref(TakeFirst(sorted_by_stars(Deref(rd)), n))

----------------------------------------------------------------------------
(* generate_report *)

\* datetime.now() in the two formats used
Now == "2024-01-01 00:00:00"
Stamp == "20240101_000000"

ReportEntry(repo) == [name |-> repo.name, stars |-> repo.stargazers_count,
                      forks |-> repo.forks_count, url |-> repo.html_url]

generate_report(ud, rd) ==
    IF FalsyDict(ud) \/ FalsyList(rd) THEN NoneRef
    ELSE LET u == Deref(ud)
             top == Deref(get_most_starred_repos(rd, DefaultN))
         IN  Ref([username |-> username,
                  profile_info |->
                      [name |-> dict_get(u, "name", "N/A"),
                       bio |-> dict_get(u, "bio", "N/A"),
                       public_repos |-> u.public_repos,
                       followers |-> u.followers,
                       following |-> u.following,
                       created_at |-> u.created_at],
                  language_stats |-> analyze_languages(rd),
                  most_starred_repos |-> [i \in 1..Len(top) |-> ReportEntry(top[i])],
                  analysis_date |-> Now])

----------------------------------------------------------------------------
(* export_report, visualize_languages, visualize_stars: the files written *)

export_report(rep, format) ==
    IF format = "json" THEN {"github_report_" \o username \o "_" \o Stamp \o ".json"} ELSE {}

\* language_stats is None or a dict
visualize_languages(language_stats) ==
    IF language_stats = NoneRef \/ Deref(language_stats) = <<>> THEN {}
    ELSE {"github_languages_" \o username \o ".png"}

visualize_stars(starred_repos) ==
    IF starred_repos = <<>> THEN {}
    ELSE {"github_stars_" \o username \o ".png"}

----------------------------------------------------------------------------
(* The server's answers *)

ErrorBody == [message |-> "error"]

UserResponses ==
    { [status |-> 200, json |-> p] : p \in UserPayloads }
    \cup { [status |-> s, json |-> ErrorBody] : s \in Statuses \ {200} }

ReposResponses ==
    { [status |-> 200, json |-> b] : b \in ServerPages }
    \cup { [status |-> s, json |-> ErrorBody] : s \in Statuses \ {200} }

----------------------------------------------------------------------------
(* analyze(): fetch_user_data *)

\* `if response.status_code == 200`
UserStatusOk(status) == status = 200

\* analyze: `if not self.fetch_user_data(): return False`
IgnoresUserFailure(ret) == FALSE
AbortsAfterUserFetch(ret) == ret # Ref(TRUE)

analyze_fetch_user_data ==
    /\ pc = "fetch_user_data"
    /\ \E resp \in UserResponses :
         LET ok == UserStatusOk(resp.status)
             ret == Ref(ok)
         IN  /\ requests' = Append(requests, UserRequest(headers))
             /\ response' = Ref(resp)
             /\ user_data' = IF ok THEN Ref(resp.json) ELSE user_data
             /\ fetch_user_ret' = ret
             /\ IF AbortsAfterUserFetch(ret)
                  THEN pc' = "done" /\ analyze_ret' = Ref(FALSE)
                  ELSE pc' = "fetch_repos" /\ analyze_ret' = analyze_ret
    /\ UNCHANGED <<token, headers, repos_data, repos, page, received,
                   fetch_repos_ret, report, files, call, result>>

----------------------------------------------------------------------------
(* analyze(): fetch_repos, one iteration of its loop per step *)

\* `if response.status_code != 200`
ReposStatusOk(status) == status = 200

\* `if not page_repos: break`
NeverLast(page_repos) == FALSE
PageIsLast(page_repos) == page_repos = <<>>

\* `page += 1`
SkipPage(p) == p + 2
NextPage(p) == p + 1

\* the return on a failed page request: self.repos_data is not assigned
fetch_repos_keeps_partial(rd, rs) == [repos_data |-> Ref(rs), ret |-> Ref(FALSE)]
fetch_repos_on_error(rd, rs) == [repos_data |-> rd, ret |-> Ref(FALSE)]

analyze_fetch_repos ==
    /\ pc = "fetch_repos"
    /\ page <= MaxPages
    /\ \E resp \in ReposResponses :
         /\ requests' = Append(requests, ReposRequest(page, headers))
         /\ response' = Ref(resp)
         /\ received' = Append(received, resp)
         /\ IF ~ReposStatusOk(resp.status)
              THEN LET out == fetch_repos_on_error(repos_data, repos)
                   IN  /\ repos_data' = out.repos_data
                       /\ fetch_repos_ret' = out.ret
                       /\ pc' = "done"
                       /\ analyze_ret' = Ref(FALSE)
                       /\ UNCHANGED <<repos, page>>
              ELSE IF PageIsLast(resp.json)
              THEN /\ repos_data' = Ref(repos)
                   /\ fetch_repos_ret' = Ref(TRUE)
                   /\ pc' = "generate_report"
                   /\ UNCHANGED <<repos, page, analyze_ret>>
              ELSE /\ repos' = repos \o resp.json
                   /\ page' = NextPage(page)
                   /\ UNCHANGED <<repos_data, fetch_repos_ret, pc, analyze_ret>>
    /\ UNCHANGED <<token, headers, user_data, fetch_user_ret, report, files,
                   call, result>>

----------------------------------------------------------------------------
(* analyze(): generate_report, export_report, visualize_* *)

analyze_report ==
    /\ pc = "generate_report"
    /\ LET rep == generate_report(user_data, repos_data)
       IN  /\ report' = rep
           /\ IF rep # NoneRef
                THEN /\ files' = files \cup export_report(rep, "json")
                                       \cup visualize_languages(Deref(rep).language_stats)
                                       \cup visualize_stars(Deref(rep).most_starred_repos)
                     /\ analyze_ret' = Ref(TRUE)
                ELSE /\ files' = files
                     /\ analyze_ret' = Ref(FALSE)
    /\ pc' = "done"
    /\ UNCHANGED <<token, headers, user_data, repos_data, repos, page, response,
                   requests, received, fetch_user_ret, fetch_repos_ret, call, result>>

----------------------------------------------------------------------------
(* The pipeline: GitHubProfileAnalyzer(username).analyze() *)

Init ==
    /\ pc = "fetch_user_data"
    /\ token \in Tokens
    /\ headers = make_headers(token)
    /\ user_data = NoneRef
    /\ repos_data = NoneRef
    /\ repos = <<>>
    /\ page = 1
    /\ response = NoneRef
    /\ requests = <<>>
    /\ received = <<>>
    /\ fetch_user_ret = NoneRef
    /\ fetch_repos_ret = NoneRef
    /\ report = NoneRef
    /\ files = {}
    /\ analyze_ret = NoneRef
    /\ call = NoneRef
    /\ result = NoneRef

Next ==
    \/ analyze_fetch_user_data
    \/ analyze_fetch_repos
    \/ analyze_report

Spec == Init /\ [][Next]_vars

\* every page request returns: an iteration of the loop that can run does run
FairSpec == Spec /\ WF_vars(analyze_fetch_repos)

----------------------------------------------------------------------------
(* The aggregation methods called directly on an analyzer holding data *)

SampleUser == UserCore @@ ("name" :> "Ann") @@ ("bio" :> None)

ApiInit ==
    /\ pc = "api"
    /\ token = None
    /\ headers = make_headers(token)
    /\ user_data \in {NoneRef, Ref(SampleUser)}
    /\ repos_data \in {NoneRef} \cup { Ref(rs) : rs \in SeqsUpTo(RepoPool, MaxLen) }
    /\ repos = <<>>
    /\ page = 1
    /\ response = NoneRef
    /\ requests = <<>>
    /\ received = <<>>
    /\ fetch_user_ret = NoneRef
    /\ fetch_repos_ret = NoneRef
    /\ report = NoneRef
    /\ files = {}
    /\ analyze_ret = NoneRef
    /\ call = NoneRef
    /\ result = NoneRef

ApiUnchanged ==
    UNCHANGED <<pc, token, headers, user_data, repos_data, repos, page, response,
                requests, received, fetch_user_ret, fetch_repos_ret, report,
                files, analyze_ret>>

call_analyze_languages ==
    /\ pc = "api" /\ call = NoneRef
    /\ call' = Ref([op |-> "analyze_languages"])
    /\ result' = analyze_languages(repos_data)
    /\ ApiUnchanged

call_get_most_starred_repos ==
    /\ pc = "api" /\ call = NoneRef
    /\ \E n \in 0..MaxN :
         /\ call' = Ref([op |-> "get_most_starred_repos", n |-> n])
         /\ result' = get_most_starred_repos(repos_data, n)
    /\ ApiUnchanged

call_generate_report ==
    /\ pc = "api" /\ call = NoneRef
    /\ call' = Ref([op |-> "generate_report"])
    /\ result' = generate_report(user_data, repos_data)
    /\ ApiUnchanged

ApiNext ==
    \/ call_analyze_languages
    \/ call_get_most_starred_repos
    \/ call_generate_report

ApiSpec == ApiInit /\ [][ApiNext]_vars

----------------------------------------------------------------------------
(* Properties of the pipeline *)

ReposRequests == SelectSeq(requests, IsReposRequest)

RECURSIVE Concat(_)
Concat(ss) == IF ss = <<>> THEN <<>> ELSE ss[1] \o Concat(Tail(ss))

UserFetchFailed == fetch_user_ret = Ref(FALSE)

\* C1: when the user request is answered with a status other than 200,
\* fetch_user_data() fails, and once it has failed no repository request is
\* issued, generate_report is not reached, no file is written and analyze()
\* returns False.
C1_UserFailureAborts ==
    /\ (Len(requests) = 1 /\ Deref(response).status # 200) => UserFetchFailed
    /\ UserFetchFailed =>
         /\ Len(requests) = 1
         /\ ReposRequests = <<>>
         /\ pc = "done"
         /\ report = NoneRef
         /\ files = {}
         /\ analyze_ret = Ref(FALSE)

C1_Witness ==
    /\ UserFetchFailed
    /\ Deref(response).status = 404
    /\ analyze_ret = Ref(FALSE)

StoppedOnEmptyPage ==
    /\ received # <<>>
    /\ received[Len(received)].status = 200
    /\ received[Len(received)].json = <<>>

\* C2: the repository requests ask for pages 1, 2, 3, ... in order; every
\* response but the last is a 200 with a non-empty page (nothing is requested
\* after an empty page or a non-200 response); and once the loop has stopped on
\* an empty page k, fetch_repos() has returned True with repos_data the
\* concatenation of pages 1..k-1 in page order.
C2_PagesInOrder ==
    /\ \A i \in 1..Len(ReposRequests) : ReposRequests[i].page = i
    /\ Len(received) = Len(ReposRequests)
    /\ \A i \in 1..(Len(received) - 1) :
         received[i].status = 200 /\ received[i].json # <<>>
    /\ StoppedOnEmptyPage =>
         /\ pc # "fetch_repos"
         /\ fetch_repos_ret = Ref(TRUE)
         /\ repos_data =
              Ref(Concat([i \in 1..(Len(received) - 1) |-> received[i].json]))

C2_Witness ==
    /\ StoppedOnEmptyPage
    /\ Len(received) = 3
    /\ received[1].json # received[2].json
    /\ fetch_repos_ret = Ref(TRUE)

ReposFetchFailed ==
    received # <<>> /\ received[Len(received)].status # 200

\* C3: when a page request is answered with a status other than 200, also
\* after earlier pages were received, fetch_repos() returns False and
\* repos_data is what it was before the call (None: the pages received are
\* dropped), and analyze() returns False with no report built and no file
\* written.
C3_PageFailureAborts ==
    ReposFetchFailed =>
        /\ fetch_repos_ret = Ref(FALSE)
        /\ repos_data = NoneRef
        /\ pc = "done"
        /\ analyze_ret = Ref(FALSE)
        /\ report = NoneRef
        /\ files = {}

C3_Witness ==
    /\ ReposFetchFailed
    /\ Len(received) = 3
    /\ Len(repos) >= 2
    /\ analyze_ret = Ref(FALSE)

----------------------------------------------------------------------------
(* Properties of the aggregation methods *)

CalledAnalyzeLanguages == call = Ref([op |-> "analyze_languages"])

CalledMostStarred == \E n \in 0..MaxN : call = Ref([op |-> "get_most_starred_repos", n |-> n])

CalledGenerateReport == call = Ref([op |-> "generate_report"])

RECURSIVE SumCounts(_)
SumCounts(stats) ==
    IF stats = <<>> THEN 0 ELSE stats[1].count + SumCounts(Tail(stats))

NumNonNull(rs) == Cardinality({ i \in 1..Len(rs) : rs[i].language # None })

NumNamed(rs) ==
    Cardinality({ i \in 1..Len(rs) : rs[i].language # None /\ rs[i].language # "" })

\* C4 as claimed: for every collection held in repos_data, the empty one
\* included, analyze_languages() returns a mapping whose counts sum to the
\* number of repositories with a non-null language.
C4_AsClaimed ==
    (CalledAnalyzeLanguages /\ repos_data # NoneRef) =>
        /\ result # NoneRef
        /\ SumCounts(Deref(result)) = NumNonNull(Deref(repos_data))

\* C4: for every non-empty collection held in repos_data, analyze_languages()
\* returns a mapping, one entry per language, whose counts sum to the number of
\* repositories whose language is neither null nor the empty string; for the
\* empty collection, and when nothing was fetched, it returns None.
C4_LanguageCounts ==
    CalledAnalyzeLanguages =>
        IF repos_data = NoneRef \/ Deref(repos_data) = <<>>
        THEN result = NoneRef
        ELSE /\ result # NoneRef
             /\ SumCounts(Deref(result)) = NumNamed(Deref(repos_data))
             /\ \A i, j \in 1..Len(Deref(result)) :
                  Deref(result)[i].language = Deref(result)[j].language => i = j

C4_Witness ==
    /\ CalledAnalyzeLanguages
    /\ result # NoneRef
    /\ Len(Deref(result)) = 2
    /\ SumCounts(Deref(result)) = 3
    /\ NumNonNull(Deref(repos_data)) = 4
    /\ Len(Deref(repos_data)) = 5

Occurrences(xs, e) == Cardinality({ i \in 1..Len(xs) : xs[i] = e })

\* top is min(n, len(rs)) repositories of rs, in non-increasing star order, and
\* nothing left out has more stars than something returned
TopByStars(top, rs, n) ==
    /\ Len(top) = Min(n, Len(rs))
    /\ \A i \in 1..Len(top) : Occurrences(top, top[i]) <= Occurrences(rs, top[i])
    /\ \A i \in 1..(Len(top) - 1) :
         top[i].stargazers_count >= top[i + 1].stargazers_count
    /\ \A j \in 1..Len(rs) :
         Occurrences(top, rs[j]) < Occurrences(rs, rs[j]) =>
             \A i \in 1..Len(top) : rs[j].stargazers_count <= top[i].stargazers_count

\* C5 as claimed: for every collection held in repos_data, the empty one
\* included, and every n >= 0, get_most_starred_repos(n) returns a sequence of
\* min(n, len(repos_data)) repositories, the most starred ones, in
\* non-increasing star order.
C5_AsClaimed ==
    (CalledMostStarred /\ repos_data # NoneRef) =>
        /\ result # NoneRef
        /\ TopByStars(Deref(result), Deref(repos_data), Deref(call).n)

\* C5: for every non-empty collection held in repos_data and every n >= 0,
\* get_most_starred_repos(n) returns a sequence of min(n, len(repos_data))
\* repositories taken from repos_data, in non-increasing star order, no
\* repository left out having more stars than one returned; for the empty
\* collection, and when nothing was fetched, it returns None.
C5_MostStarred ==
    CalledMostStarred =>
        IF repos_data = NoneRef \/ Deref(repos_data) = <<>>
        THEN result = NoneRef
        ELSE /\ result # NoneRef
             /\ TopByStars(Deref(result), Deref(repos_data), Deref(call).n)

C5_Witness ==
    /\ CalledMostStarred
    /\ result # NoneRef
    /\ Deref(call).n = 3
    /\ Len(Deref(repos_data)) = 5
    /\ Deref(result)[1].stargazers_count > Deref(result)[3].stargazers_count
    /\ Deref(repos_data)[1].stargazers_count < Deref(repos_data)[5].stargazers_count

StarsOf(xs) == { xs[i].stargazers_count : i \in 1..Len(xs) }

NamesWithStars(xs, s) ==
    LET Has(r) == r.stargazers_count = s
        sel == SelectSeq(xs, Has)
    IN  [i \in 1..Len(sel) |-> sel[i].name]

EntryNamesWithStars(xs, s) ==
    LET Has(r) == r.stars = s
        sel == SelectSeq(xs, Has)
    IN  [i \in 1..Len(sel) |-> sel[i].name]

IsPrefix(a, b) == Len(a) <= Len(b) /\ a = SubSeq(b, 1, Len(a))

\* C6: among the repositories returned by get_most_starred_repos(n), and among
\* the report's most_starred_repos, those with a given star count are the
\* first ones with that count in repos_data, in the order of repos_data: ties
\* keep their fetch order, and a tie cut at position n keeps the earlier ones.
C6_StableTies ==
    /\ (CalledMostStarred /\ result # NoneRef) =>
          \A s \in StarsOf(Deref(repos_data)) :
              IsPrefix(NamesWithStars(Deref(result), s),
                       NamesWithStars(Deref(repos_data), s))
    /\ (CalledGenerateReport /\ result # NoneRef) =>
          \A s \in StarsOf(Deref(repos_data)) :
              IsPrefix(EntryNamesWithStars(Deref(result).most_starred_repos, s),
                       NamesWithStars(Deref(repos_data), s))

\* a tie between differently named repositories is cut by the report's top 5
C6_Witness ==
    /\ CalledGenerateReport
    /\ result # NoneRef
    /\ Len(Deref(repos_data)) > DefaultN
    /\ \E s \in StarsOf(Deref(repos_data)) :
         LET kept == EntryNamesWithStars(Deref(result).most_starred_repos, s)
             all == NamesWithStars(Deref(repos_data), s)
         IN  /\ 0 < Len(kept) /\ Len(kept) < Len(all)
             /\ all[1] # all[Len(all)]
             /\ kept[1] # all[Len(all)]

----------------------------------------------------------------------------
(* Properties of the report and of the requests *)

Absent(d, key) == key \notin DOMAIN d \/ d[key] = None

\* C7: in every report built, profile_info.name and profile_info.bio are never
\* null: each is 'N/A' when the fetched profile lacks the key or carries null
\* for it, and the fetched value otherwise.
C7_PlaceholderForAbsent ==
    report # NoneRef =>
        LET info == Deref(report).profile_info
            u == Deref(user_data)
        IN  /\ info.name # None
            /\ info.bio # None
            /\ info.name = IF Absent(u, "name") THEN "N/A" ELSE u.name
            /\ info.bio = IF Absent(u, "bio") THEN "N/A" ELSE u.bio

\* C8: a request carries an Authorization header exactly when GITHUB_TOKEN is
\* set, and then its value is 'token <credential>'.
C8_AuthorizationIffToken ==
    \A i \in 1..Len(requests) :
        LET h == requests[i].headers
        IN  /\ ("Authorization" \in DOMAIN h) <=> (token # None)
            /\ ("Authorization" \in DOMAIN h) => h.Authorization = "token " \o token

BothFetched == fetch_user_ret = Ref(TRUE) /\ fetch_repos_ret = Ref(TRUE)

JsonFiles == {"github_report_octocat_20240101_000000.json"}

\* C9: when analyze() has returned after both fetches succeeded with an empty
\* first repository page, repos_data is the empty list, no report was built,
\* no file was written and the return is False; analyze() returns True, and
\* the JSON report is written, exactly when both fetches succeeded and
\* repos_data is non-empty.
C9_EmptyRepositoryList ==
    pc = "done" =>
        /\ (BothFetched /\ StoppedOnEmptyPage /\ Len(received) = 1) =>
              /\ repos_data = Ref(<<>>)
              /\ report = NoneRef
              /\ analyze_ret = Ref(FALSE)
              /\ files = {}
        /\ (analyze_ret = Ref(TRUE)) <=>
              (BothFetched /\ repos_data # NoneRef /\ Deref(repos_data) # <<>>)
        /\ (JsonFiles \subseteq files) <=> (analyze_ret = Ref(TRUE))
        /\ (files # {}) => (analyze_ret = Ref(TRUE))

C9_Witness ==
    /\ pc = "done"
    /\ BothFetched
    /\ repos_data = Ref(<<>>)
    /\ analyze_ret = Ref(FALSE)

InLoop == pc = "fetch_repos"

Terminator(resp) == resp.status # 200 \/ resp.json = <<>>

\* C10: an iteration of the fetch_repos loop ends the loop exactly when its
\* request is answered with an empty page or a status other than 200, and
\* otherwise goes on to request the next page, whatever the page number; with
\* every request returning, the loop therefore either ends or requests pages
\* beyond any bound.
C10_LoopEndsOnlyOnTerminator ==
    /\ [][InLoop =>
            IF Terminator(Deref(response'))
            THEN ~InLoop' /\ page' = page
            ELSE InLoop' /\ page' = page + 1
                 /\ Len(ReposRequests') = Len(ReposRequests) + 1]_vars
    /\ (InLoop ~> (~InLoop \/ page > MaxPages))

\* MaxPages non-empty pages were received and the loop is still running
C10_Witness ==
    /\ InLoop
    /\ page = MaxPages + 1
    /\ Len(ReposRequests) = MaxPages
    /\ ~Terminator(Deref(response))

====
